---- MODULE Spec2Model ----
(***************************************************************************)
(* Model of the Gemini TTS Netlify function (netlify/functions/gemini-tts) *)
(* in its fallback + backoff revision (src/unnamed/part_001): the handler, *)
(* tryModelsSequentially and the utilities it calls.                       *)
(*                                                                         *)
(* Conventions.                                                            *)
(*  - A JS string is a sequence of tokens; the token " " is one whitespace *)
(*    character and every other token is an indivisible run of non-space   *)
(*    characters.  '' is << >>.                                            *)
(*  - A number of seconds is an integer count of half seconds (1.5 s is 3), *)
(*    so that seconds need not be whole; milliseconds are integers.        *)
(*  - An await of fetch() and of the body readers response.text() /        *)
(*    response.json() is one suspension: the outcome of a call is          *)
(*    delivered with its body.                                             *)
(***************************************************************************)
EXTENDS Integers, Sequences, FiniteSets, TLC

VARIABLES
    env,               \* process.env: GEMINI_TTS_MODEL, GEMINI_API_KEY
    event,             \* the inbound event of the invocation
    hpc,               \* handler position: "idle", "orch", "done"
    httpResponse,      \* what the handler returned
    candidates,        \* tryModelsSequentially: const candidates
    mi,                \* index of m in candidates (for m of candidates)
    attempt,           \* inner loop counter
    pc,                \* orchestrator position: "idle", "await", "sleep", "done"
    minRetryAfterSec,  \* accumulator
    lastErr,           \* accumulator
    lastStatus,        \* accumulator
    waitMs,            \* argument of the pending sleep()
    result,            \* how tryModelsSequentially was left
    inflight,          \* number of fetch() calls not yet settled
    log,               \* history: the calls and sleeps performed, in order
    seenClasses,       \* history: classes of the failed outcomes received
    got429,            \* history: candidate indices that received a 429
    hintsSeen,         \* history: finite retry-after values seen on 429s
    hintless,          \* history: some 429 carried no usable retry-after
    successAt,         \* history: Len(log) when a success outcome arrived
    lastFailure,       \* history: the latest failed outcome and its model
    lastResponse,      \* history: the status of the latest response received
    lastRetryAfter,    \* history: the retry-after seconds of the latest outcome
    dpc, dargs, dres,  \* computeDelay applied to drawn arguments
    wpc, wargs, wres,  \* pcmToWav applied to drawn arguments
    inv,               \* the locals of each of several concurrent invocations
    single             \* the single-attempt revision (part_000): its locals

vars == << env, event, hpc, httpResponse, candidates, mi, attempt, pc,
           minRetryAfterSec, lastErr, lastStatus, waitMs, result, inflight,
           log, seenClasses, got429, hintsSeen, hintless, successAt,
           lastFailure, lastResponse, lastRetryAfter, dpc, dargs, dres, wpc, wargs, wres,
           inv, single >>

orchVars == << candidates, mi, attempt, pc, minRetryAfterSec, lastErr,
               lastStatus, waitMs, result, inflight, log, seenClasses,
               got429, hintsSeen, hintless, successAt, lastFailure,
               lastResponse, lastRetryAfter >>

delayVars == << dpc, dargs, dres >>

wavVars == << wpc, wargs, wres >>

concVars == << inv >>

singleVars == << single >>

-----------------------------------------------------------------------------
(* Bounds of the model *)

\* computeDelay is applied to attempt indices 0..MaxAttemptArg
MaxAttemptArg == 4

\* Math.random() is drawn from k / RandomSteps, k in 0..RandomSteps-1
RandomSteps == 500

\* length of the longest upstream error body, beyond the truncation limit
BodyOverrun == 1

\* length of the longest PCM payload handed to pcmToWav
MaxPayload == 300

-----------------------------------------------------------------------------
(* JS numbers and Math *)

Infinity == 1000000000

NaN == -1000000000

Undefined == -2000000000

null == 0

\* a number of seconds is held in units of 1/SecRes second
SecRes == 2

Sec(n) == n * SecRes

NumberIsFinite(x) == x # Infinity /\ x # NaN /\ x # Undefined

MathMin(a, b) == IF a <= b THEN a ELSE b

MathMax(a, b) == IF a >= b THEN a ELSE b

\* Math.floor of a number of seconds
MathFloor(x) == (x \div SecRes) * SecRes

\* Math.ceil(ms / 1000), a number of seconds
MathCeilSec(ms) == Sec((ms + 999) \div 1000)

\* retryAfterSec * 1000, a number of milliseconds
SecTimes1000(x) == (x * 1000) \div SecRes

\* Math.pow(2, n)
RECURSIVE Pow2(_)
Pow2(n) == IF n <= 0 THEN 1 ELSE 2 * Pow2(n - 1)

\* the values Math.random() is drawn from, as numerators over RandomSteps
Randoms == 0 .. (RandomSteps - 1)

RandomSamples == {0, RandomSteps - 1}

SetMin(S) == CHOOSE x \in S : \A y \in S : x <= y

-----------------------------------------------------------------------------
(* Strings *)

RECURSIVE TrimStart(_)
TrimStart(s) == IF s # << >> /\ Head(s) = " " THEN TrimStart(Tail(s)) ELSE s

RECURSIVE TrimEnd(_)
TrimEnd(s) ==
    IF s # << >> /\ s[Len(s)] = " " THEN TrimEnd(SubSeq(s, 1, Len(s) - 1)) ELSE s

\* String.prototype.trim
Trim(s) == TrimEnd(TrimStart(s))

\* the one character U+2026 appended by truncate
Ellipsis == "U+2026"

\* truncate(s, maxLen); the body handed over is always a string
truncate(s, maxLen) ==
    IF s = << >> THEN << >>
    ELSE IF Len(s) > maxLen THEN SubSeq(s, 1, maxLen) \o << Ellipsis >> ELSE s

-----------------------------------------------------------------------------
(* Configuration *)

PRO == << "models/gemini-2.5-pro-preview-tts" >>

FLASH == << "models/gemini-2.5-flash-preview-tts" >>

UNKNOWN_MODEL == << "models/gemini-2.0-flash" >>

TTS_MODELS == << PRO, FLASH >>

Includes(seq, x) == \E i \in 1 .. Len(seq) : seq[i] = x

\* process.env.GEMINI_TTS_MODEL || TTS_MODELS[1]
DEFAULT_TTS_MODEL ==
    IF env.GEMINI_TTS_MODEL # << >> THEN env.GEMINI_TTS_MODEL ELSE TTS_MODELS[2]

\* perModelMaxRetries with one retry more
perModelMaxRetries_OneMore == 2 + 1

perModelMaxRetries == 2

baseDelayMs == 600

maxDelayMs == 8000

RetryAfterCapMs == 15000

JitterRange == 250

TruncateLen == 500

GenericStatus == 502

-----------------------------------------------------------------------------
(* Upstream outcomes *)

\* a retry-after header: absent (null), or a string that is empty, numeric
\* (v: the number, in seconds), an HTTP date (v: dateMs - Date.now(), in ms)
\* or anything else
Hdr(kind, v) == [kind |-> kind, v |-> v]

NoHeader == Hdr("null", 0)

Headers ==
    { NoHeader, Hdr("numeric", Sec(2)), Hdr("numeric", Sec(3) \div 2),
      Hdr("numeric", Sec(1) \div 2), Hdr("date", 29500), Hdr("date", -1000),
      Hdr("other", 0) }

ShortBody == << "q", "u", "o", "t", "a" >>

LongBody == [i \in 1 .. (TruncateLen + BodyOverrun) |-> "x"]

Bodies == { << >>, ShortBody, LongBody }

\* a base64 string is held as the bytes it encodes
Base64(bytes) == [base64 |-> bytes]

AudioSample == Base64(<< 1, 2, 254, 255 >>)

\* what one fetch() and the reading of its body deliver
Outcome(type, status, hdr, text, json) ==
    [type |-> type, status |-> status, retryAfter |-> hdr, text |-> text,
     json |-> json]

Outcomes ==
    { Outcome("reject", 0, NoHeader, << >>, "none") }
    \cup { Outcome("response", 200, NoHeader, << >>, j) :
             j \in {"audio", "empty", "missing", "invalid"} }
    \cup { Outcome("response", 429, h, << >>, "none") : h \in Headers }
    \cup { Outcome("response", 500, NoHeader, b, "none") : b \in Bodies }

\* response.ok
ResponseOk(status) == status >= 200 /\ status <= 299

\* data?.candidates?.[0]?.content?.parts?.[0]?.inlineData?.data
InlineData(o) ==
    IF o.json = "audio" THEN AudioSample
    ELSE IF o.json = "empty" THEN Base64(<< >>)
    ELSE Base64(<< >>)

parseRetryAfterSeconds(headerVal) ==
    IF headerVal.kind \in {"null", "empty"} THEN NaN
    ELSE IF headerVal.kind = "numeric" THEN headerVal.v
    ELSE IF headerVal.kind = "date"
         THEN LET diff == MathCeilSec(headerVal.v)
              IN  IF diff > 0 THEN diff ELSE NaN
    ELSE NaN

\* computeDelay capping a server hint at maxMs instead of 15000
computeDelay_CapAtMaxMs(att, baseMs, maxMs, retryAfterSec, random) ==
    IF NumberIsFinite(retryAfterSec) /\ retryAfterSec > 0
    THEN MathMin(SecTimes1000(retryAfterSec), maxMs)
    ELSE LET exp == baseMs * Pow2(att)
             jitter == (random * JitterRange) \div RandomSteps
         IN  MathMin(exp + jitter, maxMs)

computeDelay(att, baseMs, maxMs, retryAfterSec, random) ==
    IF NumberIsFinite(retryAfterSec) /\ retryAfterSec > 0
    THEN MathMin(SecTimes1000(retryAfterSec), RetryAfterCapMs)
    ELSE LET exp == baseMs * Pow2(att)
             jitter == (random * JitterRange) \div RandomSteps
         IN  MathMin(exp + jitter, maxMs)

-----------------------------------------------------------------------------
(* tryModelsSequentially *)

\* an Error: its message is kind, and the parts interpolated into it
Err(kind, model, status, body) ==
    [kind |-> kind, model |-> model, status |-> status, body |-> body]

NullErr == Err("null", << >>, null, << >>)

NoResult ==
    [kind |-> "none", audioBase64 |-> Base64(<< >>), modelUsed |-> << >>,
     err |-> NullErr, status |-> null, retryAfterSeconds |-> Undefined]

Call(model) == [ev |-> "call", model |-> model]

Sleep == [ev |-> "sleep", model |-> << >>]

\* Candidates without the filter
Candidates_NoFilter(model) == << model >> \o TTS_MODELS

\* [model, ...TTS_MODELS.filter(m => m !== model)]
Candidates(model) == << model >> \o SelectSeq(TTS_MODELS, LAMBDA x : x # model)

\* Class without the test of the inline audio field
Class_NoAudioTest(o) ==
    IF o.type = "reject" THEN "thrown"
    ELSE IF ~ResponseOk(o.status)
         THEN IF o.status = 429 THEN "429" ELSE "apierror"
    ELSE IF o.json = "invalid" THEN "thrown"
    ELSE "success"

\* the branch of the loop body an outcome takes
Class(o) ==
    IF o.type = "reject" THEN "thrown"
    ELSE IF ~ResponseOk(o.status)
         THEN IF o.status = 429 THEN "429" ELSE "apierror"
    ELSE IF o.json = "invalid" THEN "thrown"
    ELSE IF InlineData(o) = Base64(<< >>) THEN "noaudio"
    ELSE "success"

\* AttemptsRemain never giving up on a model
AttemptsRemain_Always(att) == TRUE

\* AttemptsRemain retrying once more
AttemptsRemain_Inclusive(att) == att <= perModelMaxRetries

\* AttemptsRemain with one retry too few
AttemptsRemain_OneShort(att) == att < perModelMaxRetries - 1

\* attempt < perModelMaxRetries
AttemptsRemain(att) == att < perModelMaxRetries

\* UpdateMin keeping the last hint seen instead of the smallest
UpdateMin_LastSeen(min, ra) == ra

\* minRetryAfterSec = Math.min(minRetryAfterSec, ra)
UpdateMin(min, ra) == MathMin(min, ra)

NewLastStatus(o) == IF o.type = "reject" THEN lastStatus ELSE o.status

NewMin(o) ==
    LET ra == parseRetryAfterSeconds(o.retryAfter)
    IN  IF Class(o) = "429" /\ NumberIsFinite(ra)
        THEN UpdateMin(minRetryAfterSec, ra)
        ELSE minRetryAfterSec

NewLastErr(o, m) ==
    CASE Class(o) = "thrown" ->
           Err(IF o.type = "reject" THEN "fetch failed" ELSE "invalid json",
               << >>, null, << >>)
      [] Class(o) = "429" ->
           IF AttemptsRemain(attempt) THEN lastErr
           ELSE Err("429 quota exceeded for model", m, null, << >>)
      [] Class(o) = "apierror" ->
           Err("Gemini API error", m, o.status, truncate(o.text, TruncateLen))
      [] Class(o) = "noaudio" -> Err("No audio data in response from", m, null, << >>)
      [] Class(o) = "success" -> lastErr

\* DelayHint passing the accumulated minimum instead of the hint just read
DelayHint_Accumulated(o) == IF Class(o) = "429" THEN NewMin(o) ELSE Undefined

\* the retryAfterSec argument of the computeDelay call of the branch
DelayHint(o) ==
    IF Class(o) = "429" THEN parseRetryAfterSeconds(o.retryAfter) ELSE Undefined

\* IsQuotaExit taking any error status of the last response for a quota failure
IsQuotaExit_AnyErrorStatus(min, st) == min # Infinity \/ st >= 400

\* minRetryAfterSec !== Infinity || lastStatus === 429
IsQuotaExit(min, st) == min # Infinity \/ st = 429

\* FinalStatus dropping the recorded status
FinalStatus_AlwaysGeneric(st) == GenericStatus

\* lastStatus || 502
FinalStatus(st) == IF st # null THEN st ELSE GenericStatus

\* the statements after the loops: what is thrown
Exhausted(min, err, st) ==
    IF IsQuotaExit(min, st)
    THEN [kind |-> "throw", audioBase64 |-> Base64(<< >>), modelUsed |-> << >>,
          err |-> Err("All TTS models quota-exceeded (429).", << >>, null, << >>),
          status |-> 429,
          retryAfterSeconds |->
              IF min # Infinity THEN MathMax(Sec(1), MathFloor(min))
              ELSE Undefined]
    ELSE [kind |-> "throw", audioBase64 |-> Base64(<< >>), modelUsed |-> << >>,
          err |-> IF err # NullErr THEN err
                  ELSE Err("TTS failed for all models.", << >>, null, << >>),
          status |-> FinalStatus(st),
          retryAfterSeconds |-> Undefined]

\* HasNext stopping one candidate early
HasNext_OffByOne(i) == i < Len(candidates) - 1

\* i < candidates.length: the outer for-of has a next element
HasNext(i) == i < Len(candidates)

\* What the upstream did, recorded apart from what the function made of it:
\* "success" is a success status with the inline audio field present,
\* "429" a 429 response, "status" any other non-success status, "noaudio" a
\* success status without audio, "transport" a failed call or unparsable body
Kind(o) ==
    IF o.type = "reject" THEN "transport"
    ELSE IF o.status = 429 THEN "429"
    ELSE IF o.status < 200 \/ o.status > 299 THEN "status"
    ELSE IF o.json = "audio" THEN "success"
    ELSE IF o.json = "invalid" THEN "transport"
    ELSE "noaudio"

Failure(kind, model, status, text) ==
    [kind |-> kind, model |-> model, status |-> status, text |-> text]

NoFailure == Failure("none", << >>, null, << >>)

Observe(o) ==
    LET ra == parseRetryAfterSeconds(o.retryAfter)
    IN  /\ seenClasses' = IF Kind(o) = "success" THEN seenClasses
                          ELSE seenClasses \cup {Kind(o)}
        /\ got429' = IF Kind(o) = "429" THEN got429 \cup {mi} ELSE got429
        /\ hintsSeen' = IF Kind(o) = "429" /\ NumberIsFinite(ra)
                        THEN hintsSeen \cup {ra} ELSE hintsSeen
        /\ hintless' = (hintless \/ (Kind(o) = "429" /\ ~NumberIsFinite(ra)))
        /\ successAt' = IF Kind(o) = "success" /\ successAt = 0
                        THEN Len(log) ELSE successAt
        /\ lastFailure' = IF Kind(o) = "success" THEN lastFailure
                          ELSE Failure(Kind(o), candidates[mi],
                                       IF o.type = "reject" THEN null ELSE o.status,
                                       o.text)
        /\ lastResponse' = IF o.type = "response" THEN o.status ELSE lastResponse
        /\ lastRetryAfter' = ra

\* the fetch of candidates[mi] at attempt settles with outcome o; the function
\* runs on to its next suspension (a sleep, the next fetch) or to its end
Settle(o) ==
    /\ pc = "await"
    /\ Observe(o)
    /\ lastStatus' = NewLastStatus(o)
    /\ minRetryAfterSec' = NewMin(o)
    /\ lastErr' = NewLastErr(o, candidates[mi])
    /\ UNCHANGED << candidates, env, event, hpc, httpResponse, delayVars, wavVars, concVars, singleVars >>
    /\ IF Class(o) = "success"
       THEN /\ result' = [NoResult EXCEPT !.kind = "return",
                                          !.audioBase64 = InlineData(o),
                                          !.modelUsed = candidates[mi]]
            /\ pc' = "done"
            /\ inflight' = inflight - 1
            /\ UNCHANGED << mi, attempt, waitMs, log >>
       ELSE IF AttemptsRemain(attempt)
       THEN /\ \E random \in RandomSamples :
                 waitMs' = computeDelay(attempt, baseDelayMs, maxDelayMs,
                                        DelayHint(o), random)
            /\ pc' = "sleep"
            /\ inflight' = inflight - 1
            /\ log' = Append(log, Sleep)
            /\ UNCHANGED << mi, attempt, result >>
       ELSE IF HasNext(mi)
       THEN /\ mi' = mi + 1
            /\ attempt' = 0
            /\ log' = Append(log, Call(candidates[mi + 1]))
            /\ UNCHANGED << pc, inflight, waitMs, result >>
       ELSE /\ result' = Exhausted(minRetryAfterSec', lastErr', lastStatus')
            /\ pc' = "done"
            /\ inflight' = inflight - 1
            /\ UNCHANGED << mi, attempt, waitMs, log >>

FetchSettles == \E o \in Outcomes : Settle(o)

\* the sleep ends: continue, attempt++, the next fetch of the same model
Wake ==
    /\ pc = "sleep"
    /\ attempt' = attempt + 1
    /\ pc' = "await"
    /\ inflight' = inflight + 1
    /\ log' = Append(log, Call(candidates[mi]))
    /\ waitMs' = 0
    /\ UNCHANGED << candidates, mi, minRetryAfterSec, lastErr, lastStatus, result,
                    seenClasses, got429, hintsSeen, hintless, successAt,
                    lastFailure, lastResponse, lastRetryAfter, env, event, hpc, httpResponse,
                    delayVars, wavVars, concVars, singleVars >>

-----------------------------------------------------------------------------
(* pcmToWav *)

UInt16LE(n) == << n % 256, (n \div 256) % 256 >>

\* UInt32LE writing the most significant byte first
UInt32LE_BigEndian(n) ==
    << (n \div 16777216) % 256, (n \div 65536) % 256, (n \div 256) % 256, n % 256 >>

\* the bytes buffer.writeUInt32LE(n, offset) stores, for n in 0 .. 2^32 - 1
UInt32LE(n) ==
    << n % 256, (n \div 256) % 256, (n \div 65536) % 256, (n \div 16777216) % 256 >>

\* pcmToWav computing the byte rate of one channel only
pcmToWav_ByteRateOneChannel(pcmBuffer, sampleRate, channels, bitsPerSample) ==
    LET length == Len(pcmBuffer)
    IN  << 82, 73, 70, 70 >>
        \o UInt32LE(36 + length)
        \o << 87, 65, 86, 69 >>
        \o << 102, 109, 116, 32 >>
        \o UInt32LE(16)
        \o UInt16LE(1)
        \o UInt16LE(channels)
        \o UInt32LE(sampleRate)
        \o UInt32LE((sampleRate * bitsPerSample) \div 8)
        \o UInt16LE((channels * bitsPerSample) \div 8)
        \o UInt16LE(bitsPerSample)
        \o << 100, 97, 116, 97 >>
        \o UInt32LE(length)
        \o pcmBuffer

\* a fractional value handed to writeUInt16LE / writeUInt32LE is stored
\* truncated, hence the integer divisions by 8
pcmToWav(pcmBuffer, sampleRate, channels, bitsPerSample) ==
    LET length == Len(pcmBuffer)
    IN  << 82, 73, 70, 70 >>                                   \* 'RIFF'
        \o UInt32LE(36 + length)
        \o << 87, 65, 86, 69 >>                                \* 'WAVE'
        \o << 102, 109, 116, 32 >>                             \* 'fmt '
        \o UInt32LE(16)
        \o UInt16LE(1)
        \o UInt16LE(channels)
        \o UInt32LE(sampleRate)
        \o UInt32LE((sampleRate * channels * bitsPerSample) \div 8)
        \o UInt16LE((channels * bitsPerSample) \div 8)
        \o UInt16LE(bitsPerSample)
        \o << 100, 97, 116, 97 >>                              \* 'data'
        \o UInt32LE(length)
        \o pcmBuffer

\* Buffer.from(s, 'base64')
BufferFromBase64(s) == s.base64

\* pcmToWav(pcmBuffer) with the default parameters
DefaultWav(pcmBuffer) == pcmToWav(pcmBuffer, 24000, 1, 16)

-----------------------------------------------------------------------------
(* The handler *)

\* a JS value of a field of the request body
JsVal(type, str) == [type |-> type, str |-> str]

JsUndefined == JsVal("undefined", << >>)

JsNumber == JsVal("number", << >>)

JsString(s) == JsVal("string", s)

Body(json, text, model) == [json |-> json, text |-> text, model |-> model]

Texts ==
    { JsUndefined, JsNumber, JsString(<< >>), JsString(<< " ", " " >>),
      JsString(<< "shalom" >>) }

RequestedModels ==
    { JsUndefined, JsString(PRO), JsString(<< " " >> \o PRO \o << " " >>),
      JsString(UNKNOWN_MODEL) }

Events ==
    { [httpMethod |-> "GET", body |-> Body("null", JsUndefined, JsUndefined)],
      [httpMethod |-> "POST", body |-> Body("null", JsUndefined, JsUndefined)],
      [httpMethod |-> "POST", body |-> Body("invalid", JsUndefined, JsUndefined)] }
    \cup { [httpMethod |-> "POST", body |-> Body("object", t, JsUndefined)] :
             t \in Texts }
    \cup { [httpMethod |-> "POST", body |-> Body("object", JsString(<< "shalom" >>), r)] :
             r \in RequestedModels }

EnvModels == { << >>, UNKNOWN_MODEL }

NoEvent == [httpMethod |-> "none", body |-> Body("null", JsUndefined, JsUndefined)]

Response(statusCode, error, details, retryAfterSeconds, modelUsed, audioData) ==
    [statusCode |-> statusCode, error |-> error, details |-> details,
     retryAfterSeconds |-> retryAfterSeconds, modelUsed |-> modelUsed,
     audioData |-> audioData]

Reject(statusCode, error) ==
    Response(statusCode, error, NullErr, Undefined, << >>, Base64(<< >>))

NoResponse == Reject(null, "none")

\* TextRejected without the trim
TextRejected_NoTrim(text) == text.type # "string" \/ text.str = << >>

\* !text || typeof text !== 'string' || !text.trim()
TextRejected(text) == text.type # "string" \/ text.str = << >> \/ Trim(text.str) = << >>

\* typeof requestBody.model === 'string' ? requestBody.model.trim() : ''
RequestedModel(body) == IF body.model.type = "string" THEN Trim(body.model.str) ELSE << >>

\* PrimaryModel passing on whatever model the caller names
PrimaryModel_AsGiven(requestedModel) ==
    IF requestedModel # << >> THEN requestedModel ELSE DEFAULT_TTS_MODEL

\* TTS_MODELS.includes(requestedModel) ? requestedModel : DEFAULT_TTS_MODEL
PrimaryModel(requestedModel) ==
    IF Includes(TTS_MODELS, requestedModel) THEN requestedModel ELSE DEFAULT_TTS_MODEL

\* the handler up to its await of tryModelsSequentially, which runs up to
\* its first fetch
HandlerInvoke(ev) ==
    /\ hpc = "idle"
    /\ dpc = "off"
    /\ event' = ev
    /\ UNCHANGED << env, delayVars, wavVars, concVars, singleVars, minRetryAfterSec, lastErr, lastStatus, waitMs,
                    result, seenClasses, got429, hintsSeen, hintless, successAt,
                    lastFailure, lastResponse, lastRetryAfter, attempt >>
    /\ IF ev.httpMethod # "POST"
       THEN /\ httpResponse' = Reject(405, "Method not allowed")
            /\ hpc' = "done"
            /\ UNCHANGED << candidates, mi, pc, inflight, log >>
       ELSE IF ~env.GEMINI_API_KEY
       THEN /\ httpResponse' = Reject(500, "API key not configured")
            /\ hpc' = "done"
            /\ UNCHANGED << candidates, mi, pc, inflight, log >>
       ELSE IF ev.body.json = "invalid"
       THEN /\ httpResponse' = Reject(400, "Invalid JSON in request body")
            /\ hpc' = "done"
            /\ UNCHANGED << candidates, mi, pc, inflight, log >>
       ELSE IF TextRejected(ev.body.text)
       THEN /\ httpResponse' = Reject(400, "Valid text is required")
            /\ hpc' = "done"
            /\ UNCHANGED << candidates, mi, pc, inflight, log >>
       ELSE /\ candidates' = Candidates(PrimaryModel(RequestedModel(ev.body)))
            /\ mi' = 1
            /\ pc' = "await"
            /\ inflight' = inflight + 1
            /\ log' = Append(log, Call(candidates'[1]))
            /\ hpc' = "orch"
            /\ UNCHANGED httpResponse

Invoke == \E ev \in Events : HandlerInvoke(ev)

\* CaughtStatus ignoring the status the error carries
CaughtStatus_Generic(st) == GenericStatus

\* e.status || 502
CaughtStatus(st) == IF st # null THEN st ELSE GenericStatus

\* the handler after its await of tryModelsSequentially
HandlerFinish ==
    /\ hpc = "orch"
    /\ pc = "done"
    /\ hpc' = "done"
    /\ httpResponse' =
         IF result.kind = "throw"
         THEN IF CaughtStatus(result.status) = 429
              THEN Response(429, "quota_exceeded", result.err,
                            result.retryAfterSeconds, << >>, Base64(<< >>))
              ELSE Response(502, "tts_failed", result.err, Undefined, << >>,
                            Base64(<< >>))
         ELSE Response(200, "none", NullErr, Undefined, result.modelUsed,
                       Base64(DefaultWav(BufferFromBase64(result.audioBase64))))
    /\ UNCHANGED << env, event, orchVars, delayVars, wavVars, concVars, singleVars >>

-----------------------------------------------------------------------------
(* Specifications *)

NoArgs == [att |-> 0, hint |-> Undefined, random |-> 0]

NoWavArgs == [pcmBuffer |-> << >>, sampleRate |-> 0, channels |-> 0, bitsPerSample |-> 0]

WavOff ==
    /\ wpc = "off"
    /\ wargs = NoWavArgs
    /\ wres = << >>

DelayOff ==
    /\ dpc = "off"
    /\ dargs = NoArgs
    /\ dres = 0

ConcOff == inv = << >>

SingleOff == single = << >>

Idle ==
    /\ event = NoEvent
    /\ hpc = "idle"
    /\ httpResponse = NoResponse
    /\ candidates = << >>
    /\ mi = 0
    /\ attempt = 0
    /\ pc = "idle"
    /\ minRetryAfterSec = Infinity
    /\ lastErr = NullErr
    /\ lastStatus = null
    /\ waitMs = 0
    /\ result = NoResult
    /\ inflight = 0
    /\ log = << >>
    /\ seenClasses = {}
    /\ got429 = {}
    /\ hintsSeen = {}
    /\ hintless = FALSE
    /\ successAt = 0
    /\ lastFailure = NoFailure
    /\ lastResponse = null
    /\ lastRetryAfter = NaN

Init ==
    /\ env \in [GEMINI_TTS_MODEL : EnvModels, GEMINI_API_KEY : BOOLEAN]
    /\ Idle
    /\ DelayOff
    /\ WavOff
    /\ ConcOff
    /\ SingleOff

Next == Invoke \/ FetchSettles \/ Wake \/ HandlerFinish

Spec == Init /\ [][Next]_vars

\* computeDelay as a function of its arguments
DelayHints == { Undefined, NaN, 0 - Sec(1), 0, 1, Sec(5), Sec(15), Sec(15) + 1, Sec(30) }

InitDelay ==
    /\ env = [GEMINI_TTS_MODEL |-> << >>, GEMINI_API_KEY |-> TRUE]
    /\ Idle
    /\ dpc = "args"
    /\ dargs \in [att : 0 .. MaxAttemptArg, hint : DelayHints, random : Randoms]
    /\ dres = 0
    /\ WavOff
    /\ ConcOff
    /\ SingleOff

ApplyComputeDelay ==
    /\ dpc = "args"
    /\ dpc' = "done"
    /\ dres' = computeDelay(dargs.att, baseDelayMs, maxDelayMs, dargs.hint, dargs.random)
    /\ UNCHANGED << env, event, hpc, httpResponse, orchVars, dargs, wavVars, concVars,
                    singleVars >>

NextDelay == ApplyComputeDelay

SpecDelay == InitDelay /\ [][NextDelay]_vars

-----------------------------------------------------------------------------
(* Properties of tryModelsSequentially *)

Returned == result.kind = "return"

Thrown == result.kind = "throw"

QuotaExhausted == Thrown /\ result.err.kind = "All TTS models quota-exceeded (429)."

UpstreamFailure == Thrown /\ ~QuotaExhausted

\* the network calls performed, in order
CallSeq == SelectSeq(log, LAMBDA e : e.ev = "call")

CallsTo(model) == Cardinality({k \in 1 .. Len(log) : log[k] = Call(model)})

SleepCount == Cardinality({k \in 1 .. Len(log) : log[k] = Sleep})

\* C1: the call returns a result exactly when some attempt received a success
\* status with the inline audio field present; modelUsed is the model of that
\* (first) attempt, no call and no sleep follows it, and every other way out
\* of the function is a throw.
C1_ReturnsExactlyOnSuccess ==
    /\ Returned <=> successAt # 0
    /\ Returned => /\ log[successAt] = Call(result.modelUsed)
                   /\ Len(log) = successAt
                   /\ inflight = 0
                   /\ pc = "done"
    /\ pc = "done" <=> (Returned \/ Thrown)

C1_Witness ==
    /\ Returned
    /\ Len(candidates) >= 2
    /\ result.modelUsed = candidates[2]
    /\ "noaudio" \in seenClasses
    /\ SleepCount >= 3

\* C2: no candidate model receives more than MAX_RETRIES_PER_MODEL + 1 = 3
\* network calls; and when the first candidate answers 429 to every call and
\* the second succeeds on its first attempt, the call returns with modelUsed
\* the second candidate after at most 3 calls to the first.
C2_AtMostThreeCallsPerModel ==
    /\ \A i \in 1 .. Len(candidates) : CallsTo(candidates[i]) <= 3
    /\ \A e \in {log[k] : k \in 1 .. Len(log)} :
          e.ev = "call" => Includes(candidates, e.model)
    /\ ( /\ pc = "done"
         /\ Len(candidates) >= 2
         /\ seenClasses = {"429"}
         /\ got429 = {1}
         /\ successAt # 0 => log[successAt].model # candidates[1] )
       => /\ Returned
          /\ result.modelUsed = candidates[2]
          /\ CallsTo(candidates[1]) <= 3
          /\ CallsTo(candidates[2]) = 1

C2_Witness ==
    /\ Returned
    /\ seenClasses = {"429"}
    /\ got429 = {1}
    /\ result.modelUsed = candidates[2]
    /\ CallsTo(candidates[1]) = 3

\* C3: calls are strictly sequential and ordered: at most one is in flight,
\* none during a sleep, and the k-th call goes to candidate ceil(k/3), so
\* candidates are called in list order, a candidate is first called only
\* after its predecessor failed exactly 3 times, and none is called again.
C3_SequentialOrdered ==
    /\ inflight \in {0, 1}
    /\ pc = "sleep" => inflight = 0
    /\ (inflight = 1) <=> (pc = "await")
    /\ \A k \in 1 .. Len(CallSeq) :
          /\ ((k - 1) \div 3) + 1 <= Len(candidates)
          /\ CallSeq[k].model = candidates[((k - 1) \div 3) + 1]
    /\ successAt # 0 => Len(log) = successAt
    /\ \A i, j \in 1 .. Len(candidates) : candidates[i] = candidates[j] => i = j

C3_Witness ==
    /\ pc = "await"
    /\ Len(candidates) = 3
    /\ Len(CallSeq) = 7
    /\ CallSeq[7].model = candidates[3]
    /\ CallSeq[4].model = candidates[2]

\* C4 (as claimed): when the candidates are exhausted, the failure is
\* QuotaExhausted with status 429 if any attempt received a 429, whatever came
\* later, and UpstreamFailure if none did.
C4_Any429MeansQuota ==
    Thrown => IF got429 # {} THEN QuotaExhausted /\ result.status = 429
              ELSE UpstreamFailure

\* C5 (as claimed): QuotaExhausted only when every candidate received a 429.
C5_QuotaOnlyIfAllThrottled ==
    QuotaExhausted => got429 = 1 .. Len(candidates)

\* C5 (amended): QuotaExhausted only when at least one candidate received a
\* 429; a call in which no candidate returned 429 never ends in
\* QuotaExhausted.
C5_QuotaOnlyIfSomeThrottled ==
    /\ QuotaExhausted => got429 # {}
    /\ (Thrown /\ got429 = {}) => UpstreamFailure /\ result.status # 429

C5_Witness ==
    /\ QuotaExhausted
    /\ got429 # {}
    /\ got429 # 1 .. Len(candidates)

\* C6: on QuotaExhausted, retryAfterSeconds is max(1, floor(the smallest
\* retry-after hint seen on any 429 of the call)), and is absent when no 429
\* carried a hint; when every response is a 429 with retry-after "2" it is 2.
C6_RetryAfterIsFlooredMinimum ==
    QuotaExhausted =>
        /\ hintsSeen = {} => result.retryAfterSeconds = Undefined
        /\ hintsSeen # {} =>
              LET least == SetMin(hintsSeen)
                  whole == CHOOSE n \in -1 .. 60 : Sec(n) <= least /\ least < Sec(n + 1)
              IN  result.retryAfterSeconds = Sec(IF whole >= 1 THEN whole ELSE 1)
        /\ (seenClasses = {"429"} /\ hintsSeen = {Sec(2)} /\ ~hintless)
              => result.retryAfterSeconds = Sec(2)

C6_Witness ==
    /\ QuotaExhausted
    /\ hintsSeen = {Sec(2), Sec(3) \div 2}
    /\ lastFailure.kind = "429"
    /\ minRetryAfterSec # Sec(2)
    /\ result.retryAfterSeconds = Sec(1)

\* the error the function records for a failed outcome
ExpectedErr(f) ==
    CASE f.kind = "transport" ->
           Err(IF f.status = null THEN "fetch failed" ELSE "invalid json",
               << >>, null, << >>)
      [] f.kind = "status" ->
           Err("Gemini API error", f.model, f.status,
               IF Len(f.text) <= 500 THEN f.text
               ELSE SubSeq(f.text, 1, 500) \o << Ellipsis >>)
      [] f.kind = "noaudio" ->
           Err("No audio data in response from", f.model, null, << >>)
      [] OTHER -> Err("429 quota exceeded for model", f.model, null, << >>)

\* C7: an UpstreamFailure carries the reason of the last failed attempt and
\* the status of the last response, or 502 when no response was received;
\* when every response is a 500, it carries 500 and the last candidate's
\* truncated body.
C7_UpstreamFailureCarriesLast ==
    /\ UpstreamFailure =>
          /\ result.err = ExpectedErr(lastFailure)
          /\ result.status = IF lastResponse # null THEN lastResponse ELSE 502
    /\ (Thrown /\ seenClasses = {"status"}) =>
          /\ UpstreamFailure
          /\ result.status = 500
          /\ result.err.kind = "Gemini API error"
          /\ result.err.model = candidates[Len(candidates)]
          /\ result.err.model = lastFailure.model

C7_Witness ==
    /\ UpstreamFailure
    /\ seenClasses = {"status"}
    /\ result.status = 500
    /\ lastFailure.text = LongBody
    /\ Len(result.err.body) < Len(LongBody) + 1
    /\ result.err.body # LongBody

\* C8: a failure is surfaced only after the whole list is exhausted: when
\* the function throws, every candidate has received exactly 3 calls.
C8_ThrowsOnlyWhenExhausted ==
    Thrown =>
        /\ \A i \in 1 .. Len(candidates) : CallsTo(candidates[i]) = 3
        /\ Len(CallSeq) = 3 * Len(candidates)
        /\ Len(candidates) >= Len(TTS_MODELS)

C8_Witness ==
    /\ Thrown
    /\ Len(candidates) = 3
    /\ seenClasses = {"transport", "429", "status", "noaudio"}
    /\ Len(CallSeq) = 9

\* C9: computeDelay(attempt, 600, 8000, hint) is min(hint * 1000, 15000) for
\* a positive finite hint, and min(600 * 2^attempt + jitter, 8000) with an
\* integer jitter in [0, 250) otherwise: 5 s gives 5000, 30 s gives 15000, no
\* hint at attempt 0 gives [600, 850), attempt 4 gives at most 8000.
C9_ComputeDelay ==
    dpc = "done" =>
        LET hint == dargs.hint
            positive == hint \notin {Undefined, NaN, Infinity} /\ hint > 0
            hintMs == (hint * 1000) \div SecRes
        IN  /\ positive =>
                  dres = IF hintMs <= 15000 THEN hintMs ELSE 15000
            /\ ~positive =>
                  \E jitter \in 0 .. 249 :
                      LET d == 600 * (2 ^ dargs.att) + jitter
                      IN  dres = IF d <= 8000 THEN d ELSE 8000
            /\ hint = Sec(5) => dres = 5000
            /\ hint = Sec(30) => dres = 15000
            /\ (~positive /\ dargs.att = 0) => dres >= 600 /\ dres < 850
            /\ dargs.att = 4 /\ ~positive => dres <= 8000

C9_Witness ==
    /\ dpc = "done"
    /\ dargs.hint = Sec(30)
    /\ dargs.att = 0
    /\ dres = 15000

\* the place of a model in the allowlist
AllowlistIndex(model) == CHOOSE i \in 1 .. Len(TTS_MODELS) : TTS_MODELS[i] = model

\* C10: the candidate list is non-empty and duplicate-free, starts with the
\* requested model when that is in the allowlist and with the default model
\* otherwise, and continues with the other allowlist members in their order.
C10_CandidateList ==
    hpc \in {"orch", "done"} /\ pc # "idle" =>
        LET requested == IF event.body.model.type = "string"
                         THEN Trim(event.body.model.str) ELSE << >>
            first == IF \E i \in 1 .. 2 : TTS_MODELS[i] = requested
                     THEN requested ELSE DEFAULT_TTS_MODEL
            n == Len(candidates)
        IN  /\ n >= 1
            /\ \A i, j \in 1 .. n : candidates[i] = candidates[j] => i = j
            /\ candidates[1] = first
            /\ \A i \in 2 .. n : Includes(TTS_MODELS, candidates[i])
            /\ \A i \in 1 .. Len(TTS_MODELS) : Includes(candidates, TTS_MODELS[i])
            /\ \A i, j \in 2 .. n :
                  i < j => AllowlistIndex(candidates[i]) < AllowlistIndex(candidates[j])

C10_Witness ==
    /\ hpc = "orch"
    /\ event.body.model = JsString(<< " " >> \o PRO \o << " " >>)
    /\ env.GEMINI_TTS_MODEL = UNKNOWN_MODEL
    /\ candidates = << PRO, FLASH >>

\* C11 (as claimed): every network call goes to a member of the allowlist
\* TTS_MODELS, whatever the caller's model string and whatever the value of
\* GEMINI_TTS_MODEL.
C11_CallsOnlyAllowlisted ==
    \A k \in 1 .. Len(log) :
        log[k].ev = "call" => \E i \in 1 .. Len(TTS_MODELS) : TTS_MODELS[i] = log[k].model

-----------------------------------------------------------------------------
(* pcmToWav as a function of its arguments *)

Payloads ==
    { << >>, << 1, 2, 254, 255 >>, [i \in 1 .. MaxPayload |-> (i * 7) % 256] }

SampleRates == { 8000, 24000, 44100, 96000 }

ChannelCounts == { 1, 2, 6 }

SampleSizes == { 8, 12, 16, 24 }

InitWav ==
    /\ env = [GEMINI_TTS_MODEL |-> << >>, GEMINI_API_KEY |-> TRUE]
    /\ Idle
    /\ DelayOff
    /\ wpc = "args"
    /\ wargs \in [pcmBuffer : Payloads, sampleRate : SampleRates,
                  channels : ChannelCounts, bitsPerSample : SampleSizes]
    /\ wres = << >>
    /\ ConcOff
    /\ SingleOff

ApplyPcmToWav ==
    /\ wpc = "args"
    /\ wpc' = "done"
    /\ wres' = pcmToWav(wargs.pcmBuffer, wargs.sampleRate, wargs.channels,
                        wargs.bitsPerSample)
    /\ UNCHANGED << env, event, hpc, httpResponse, orchVars, delayVars, wargs, concVars,
                    singleVars >>

NextWav == ApplyPcmToWav

SpecWav == InitWav /\ [][NextWav]_vars

\* buffer.readUInt16LE(offset), buffer.readUInt32LE(offset)
ReadUInt16LE(buf, offset) == buf[offset + 1] + 256 * buf[offset + 2]

ReadUInt32LE(buf, offset) ==
    buf[offset + 1] + 256 * buf[offset + 2] + 65536 * buf[offset + 3]
    + 16777216 * buf[offset + 4]

\* C12: the output is exactly 44 + len(payload) bytes long and the
\* little-endian fields at offsets 22, 24, 34 and 40 read back as channels,
\* sampleRate, bitsPerSample and len(payload); an empty payload gives 44
\* bytes with subchunk2 size 0.
C12_WavRoundTrip ==
    wpc = "done" =>
        /\ Len(wres) = 44 + Len(wargs.pcmBuffer)
        /\ \A i \in 1 .. Len(wres) : wres[i] \in 0 .. 255
        /\ ReadUInt16LE(wres, 22) = wargs.channels
        /\ ReadUInt32LE(wres, 24) = wargs.sampleRate
        /\ ReadUInt16LE(wres, 34) = wargs.bitsPerSample
        /\ ReadUInt32LE(wres, 40) = Len(wargs.pcmBuffer)
        /\ wargs.pcmBuffer = << >> => Len(wres) = 44 /\ ReadUInt32LE(wres, 40) = 0

C12_Witness ==
    /\ wpc = "done"
    /\ wargs.pcmBuffer = << >>
    /\ wargs.sampleRate = 96000
    /\ wargs.channels = 2
    /\ Len(wres) = 44

\* C13: chunk size (offset 4) is 36 + payloadLength, subchunk1 size is 16,
\* audio format is 1, byte rate (offset 28) is
\* sampleRate * channels * bitsPerSample / 8, block alignment (offset 32) is
\* channels * bitsPerSample / 8 (the whole part of the quotient when it is
\* not whole), the four tags are in place and bytes 44.. are the payload.
C13_WavDerivedFields ==
    wpc = "done" =>
        LET length == Len(wargs.pcmBuffer)
            rate == wargs.sampleRate * wargs.channels * wargs.bitsPerSample
            align == wargs.channels * wargs.bitsPerSample
        IN  /\ SubSeq(wres, 1, 4) = << 82, 73, 70, 70 >>
            /\ ReadUInt32LE(wres, 4) = 36 + length
            /\ SubSeq(wres, 9, 16) = << 87, 65, 86, 69, 102, 109, 116, 32 >>
            /\ ReadUInt32LE(wres, 16) = 16
            /\ ReadUInt16LE(wres, 20) = 1
            /\ 8 * ReadUInt32LE(wres, 28) <= rate
            /\ rate < 8 * (ReadUInt32LE(wres, 28) + 1)
            /\ 8 * ReadUInt16LE(wres, 32) <= align
            /\ align < 8 * (ReadUInt16LE(wres, 32) + 1)
            /\ SubSeq(wres, 37, 40) = << 100, 97, 116, 97 >>
            /\ SubSeq(wres, 45, Len(wres)) = wargs.pcmBuffer

C13_Witness ==
    /\ wpc = "done"
    /\ Len(wargs.pcmBuffer) = MaxPayload
    /\ wargs.sampleRate = 44100
    /\ wargs.channels = 2
    /\ wargs.bitsPerSample = 16
    /\ ReadUInt32LE(wres, 28) = 176400
    /\ ReadUInt16LE(wres, 32) = 4

-----------------------------------------------------------------------------
(* Concurrent invocations of tryModelsSequentially *)

Invocations == { 1, 2 }

ConcModels == { PRO, FLASH }

ConcOutcomes ==
    { Outcome("response", 200, NoHeader, << >>, "audio"),
      Outcome("response", 429, Hdr("numeric", Sec(2)), << >>, "none"),
      Outcome("response", 429, Hdr("numeric", Sec(3) \div 2), << >>, "none"),
      Outcome("response", 500, NoHeader, ShortBody, "none") }

\* the variables one call of tryModelsSequentially declares, with the record
\* of what that call was given (model, hints, lastResponse, calls)
Locals(ipc, model) ==
    [pc |-> ipc, model |-> model, candidates |-> Candidates(model), mi |-> 1,
     attempt |-> 0, minRetryAfterSec |-> Infinity, lastErr |-> NullErr,
     lastStatus |-> null, waitMs |-> 0, result |-> NoResult,
     hints |-> {}, lastResponse |-> null, calls |-> << >>]

NotStarted == Locals("idle", << >>)

\* ConcMin with minRetryAfterSec declared outside the function, one variable
\* for all invocations
ConcMin_ModuleScope(c, i, ra) ==
    UpdateMin(SetMin({ c[j].minRetryAfterSec : j \in DOMAIN c }), ra)

\* minRetryAfterSec = Math.min(minRetryAfterSec, ra), on the variable of
\* invocation i
ConcMin(c, i, ra) == UpdateMin(c[i].minRetryAfterSec, ra)

\* the loop body of invocation i from the settling of its fetch with outcome
\* o to its next suspension or its end
LocalSettle(c, i, o, random) ==
    LET l == c[i]
        m == l.candidates[l.mi]
        ra == parseRetryAfterSeconds(o.retryAfter)
        st == IF o.type = "reject" THEN l.lastStatus ELSE o.status
        min == IF Class(o) = "429" /\ NumberIsFinite(ra)
               THEN ConcMin(c, i, ra) ELSE l.minRetryAfterSec
        err == CASE Class(o) = "thrown" ->
                      Err(IF o.type = "reject" THEN "fetch failed" ELSE "invalid json",
                          << >>, null, << >>)
                 [] Class(o) = "429" ->
                      IF AttemptsRemain(l.attempt) THEN l.lastErr
                      ELSE Err("429 quota exceeded for model", m, null, << >>)
                 [] Class(o) = "apierror" ->
                      Err("Gemini API error", m, o.status, truncate(o.text, TruncateLen))
                 [] Class(o) = "noaudio" ->
                      Err("No audio data in response from", m, null, << >>)
                 [] Class(o) = "success" -> l.lastErr
        acc == [l EXCEPT !.lastStatus = st, !.minRetryAfterSec = min, !.lastErr = err,
                         !.hints = IF Kind(o) = "429" /\ NumberIsFinite(ra)
                                   THEN @ \cup {ra} ELSE @,
                         !.lastResponse = IF o.type = "response" THEN o.status ELSE @]
    IN  IF Class(o) = "success"
        THEN [acc EXCEPT !.pc = "done",
                         !.result = [NoResult EXCEPT !.kind = "return",
                                                     !.audioBase64 = InlineData(o),
                                                     !.modelUsed = m]]
        ELSE IF AttemptsRemain(l.attempt)
        THEN [acc EXCEPT !.pc = "sleep",
                         !.waitMs = computeDelay(l.attempt, baseDelayMs, maxDelayMs,
                                                 DelayHint(o), random)]
        ELSE IF l.mi < Len(l.candidates)
        THEN [acc EXCEPT !.mi = l.mi + 1, !.attempt = 0,
                         !.calls = Append(@, l.candidates[l.mi + 1])]
        ELSE [acc EXCEPT !.pc = "done", !.result = Exhausted(min, err, st)]

InitConc ==
    /\ env = [GEMINI_TTS_MODEL |-> << >>, GEMINI_API_KEY |-> TRUE]
    /\ Idle
    /\ DelayOff
    /\ WavOff
    /\ inv = [i \in Invocations |-> NotStarted]
    /\ SingleOff

\* invocation i is called and runs up to its first fetch
ConcStart(i, model) ==
    /\ inv[i].pc = "idle"
    /\ inv' = [inv EXCEPT ![i] = [Locals("await", model) EXCEPT !.calls = << model >>]]
    /\ UNCHANGED << env, event, hpc, httpResponse, orchVars, delayVars, wavVars,
                    singleVars >>

ConcSettle(i, o) ==
    /\ inv[i].pc = "await"
    /\ \E random \in RandomSamples :
          inv' = [inv EXCEPT ![i] = LocalSettle(inv, i, o, random)]
    /\ UNCHANGED << env, event, hpc, httpResponse, orchVars, delayVars, wavVars,
                    singleVars >>

ConcWake(i) ==
    /\ inv[i].pc = "sleep"
    /\ inv' = [inv EXCEPT ![i] = [@ EXCEPT !.pc = "await", !.attempt = @ + 1,
                                          !.waitMs = 0,
                                          !.calls = Append(@, inv[i].candidates[inv[i].mi])]]
    /\ UNCHANGED << env, event, hpc, httpResponse, orchVars, delayVars, wavVars,
                    singleVars >>

ConcStarts == \E i \in Invocations, model \in ConcModels : ConcStart(i, model)

ConcSettles == \E i \in Invocations, o \in ConcOutcomes : ConcSettle(i, o)

ConcWakes == \E i \in Invocations : ConcWake(i)

NextConc == ConcStarts \/ ConcSettles \/ ConcWakes

SpecConc == InitConc /\ [][NextConc]_vars

\* the smallest hint invocation l has itself been given
OwnMin(l) == IF l.hints = {} THEN Infinity ELSE SetMin(l.hints)

OwnInputsDecide ==
    \A i \in DOMAIN inv :
        LET l == inv[i]
        IN  l.pc # "idle" =>
              /\ l.candidates = Candidates(l.model)
              /\ \A k \in 1 .. Len(l.calls) : Includes(l.candidates, l.calls[k])
              /\ l.minRetryAfterSec = OwnMin(l)
              /\ l.lastStatus = l.lastResponse
              /\ l.lastErr.model = << >> \/ Includes(l.candidates, l.lastErr.model)
              /\ (l.pc = "done" /\ l.result.kind = "throw")
                     => l.result = Exhausted(OwnMin(l), l.lastErr, l.lastResponse)
              /\ (l.pc = "done" /\ l.result.kind = "return")
                     => l.result.modelUsed = l.calls[Len(l.calls)]

OneInvocationPerStep ==
    \E i \in Invocations : \A j \in Invocations \ {i} : inv'[j] = inv[j]

\* C16: with invocations interleaved at their awaits and sleeps, the
\* accumulators of each (minimum retry-after, last status, last error), the
\* models it calls and what it returns or throws follow from its own model
\* argument and its own responses alone, and a step of one invocation leaves
\* the variables of every other invocation as they were.
C16_InvocationsIndependent == []OwnInputsDecide /\ [][OneInvocationPerStep]_vars

C16_Witness ==
    /\ inv # << >>
    /\ inv[1].pc = "done"
    /\ inv[1].result.kind = "throw"
    /\ inv[1].result.retryAfterSeconds = Sec(2)
    /\ inv[2].pc = "sleep"
    /\ inv[2].hints = { Sec(3) \div 2 }

-----------------------------------------------------------------------------
(* Properties of the handler *)

\* text that is missing, not a string, empty or made of whitespace only
InvalidText(text) ==
    text.type # "string" \/ \A i \in 1 .. Len(text.str) : text.str[i] = " "

C15_ResponseFollowsOutcome ==
    (hpc = "done" /\ result # NoResult) =>
        /\ Returned \/ Thrown
        /\ httpResponse.statusCode \in { 200, 429, 502 }
        /\ httpResponse.statusCode = 200 <=> Returned
        /\ httpResponse.statusCode = 429 <=> QuotaExhausted
        /\ httpResponse.statusCode = 502 <=> UpstreamFailure
        /\ Returned =>
              /\ httpResponse.error = "none"
              /\ httpResponse.modelUsed = result.modelUsed
              /\ httpResponse.modelUsed = log[successAt].model
              /\ httpResponse.audioData
                     = Base64(DefaultWav(BufferFromBase64(result.audioBase64)))
              /\ Len(DefaultWav(BufferFromBase64(result.audioBase64)))
                     = 44 + Len(BufferFromBase64(result.audioBase64))
        /\ QuotaExhausted =>
              /\ httpResponse.error = "quota_exceeded"
              /\ httpResponse.details = result.err
              /\ httpResponse.retryAfterSeconds = result.retryAfterSeconds
              /\ httpResponse.retryAfterSeconds # Undefined <=> hintsSeen # {}
        /\ UpstreamFailure =>
              /\ httpResponse.error = "tts_failed"
              /\ httpResponse.details = result.err
              /\ httpResponse.details # NullErr
              /\ httpResponse.retryAfterSeconds = Undefined

C15_Witness ==
    /\ hpc = "done"
    /\ QuotaExhausted
    /\ httpResponse.statusCode = 429
    /\ httpResponse.error = "quota_exceeded"
    /\ httpResponse.retryAfterSeconds = Sec(1)

\* the request passed every check of the handler and names a model that is
\* not one of TTS_MODELS
NamesUnlistedModel ==
    /\ event.httpMethod = "POST"
    /\ env.GEMINI_API_KEY
    /\ event.body.json = "object"
    /\ ~InvalidText(event.body.text)
    /\ event.body.model.type = "string"
    /\ Trim(event.body.model.str) # << >>
    /\ \A i \in 1 .. Len(TTS_MODELS) : TTS_MODELS[i] # Trim(event.body.model.str)

-----------------------------------------------------------------------------
(* Sleeps of tryModelsSequentially *)

\* the sleeps taken after calls to model
SleepsAfter(model) ==
    Cardinality({ k \in 2 .. Len(log) : log[k] = Sleep /\ log[k - 1] = Call(model) })

SleepPattern ==
    /\ \A k \in 1 .. Len(log) :
          log[k] = Sleep =>
              /\ k > 1
              /\ log[k - 1].ev = "call"
              /\ k < Len(log) => log[k + 1] = log[k - 1]
    /\ \A k \in 1 .. Len(log) - 1 :
          (log[k].ev = "call" /\ log[k + 1].ev = "call") =>
              /\ log[k + 1] # log[k]
              /\ k >= 5
              /\ log[k - 1] = Sleep /\ log[k - 2] = log[k]
              /\ log[k - 3] = Sleep /\ log[k - 4] = log[k]
    /\ pc = "sleep" <=> (log # << >> /\ log[Len(log)] = Sleep)
    /\ pc = "sleep" =>
          /\ attempt \in { 0, 1 }
          /\ successAt = 0
          /\ lastFailure.kind # "none"
          /\ lastFailure.model = candidates[mi]
    /\ Thrown => Len(log) = 5 * Len(candidates) /\ log[Len(log)].ev = "call"
    /\ \A i \in 1 .. Len(candidates) : SleepsAfter(candidates[i]) <= 2

\* a settled fetch leads to a sleep exactly when it failed with attempt 0 or 1
SleepExactlyOnRetry ==
    pc = "await" => (pc' = "sleep" <=> (successAt' = 0 /\ attempt \in { 0, 1 }))

\* C18: a sleep happens exactly after a failed attempt with attempt index 0
\* or 1 and is followed by another call to the same model; a model's third
\* attempt is followed by the next model's first call, or by the throw, with
\* no sleep in between, so that no candidate has more than 2 sleeps.
C18_SleepOnlyBetweenRetries == []SleepPattern /\ [][SleepExactlyOnRetry]_vars

C18_Witness ==
    /\ Thrown
    /\ Len(candidates) = 3
    /\ SleepCount = 6
    /\ \A i \in 1 .. Len(candidates) : SleepsAfter(candidates[i]) = 2

\* the hint carried by the outcome that led to the pending sleep
PrecedingHint == lastRetryAfter

SleepDuration ==
    pc = "sleep" =>
        /\ waitMs > 0
        /\ waitMs <= 15000
        /\ IF lastFailure.kind = "429" /\ NumberIsFinite(PrecedingHint)
              /\ PrecedingHint > 0
           THEN waitMs = IF (PrecedingHint * 1000) \div SecRes < 15000
                         THEN (PrecedingHint * 1000) \div SecRes ELSE 15000
           ELSE /\ \E jitter \in 0 .. 249 : waitMs = 600 * Pow2(attempt) + jitter
                /\ waitMs < 1450

\* the calls made so far are the first of: each candidate three times, in
\* the order of the candidate list
CallsOnSchedule ==
    \A k \in 1 .. Len(CallSeq) : CallSeq[k].model = candidates[((k - 1) \div 3) + 1]

\* C19: every sleep lasts at most 15000 ms; after a 429 with a usable hint it
\* is min(hint * 1000, 15000), after any other failure (and after a 429
\* without a usable hint) 600 * 2^attempt + jitter, jitter in [0, 250), hence
\* below 1450 ms; neither the accumulated minimum nor any earlier hint enters
\* the duration, and the calls follow the fixed schedule whatever was hinted.
C19_SleepBoundedAndLocal == SleepDuration /\ CallsOnSchedule

C19_Witness ==
    /\ pc = "sleep"
    /\ lastFailure.kind = "429"
    /\ PrecedingHint = Sec(30)
    /\ waitMs = 15000
    /\ minRetryAfterSec = Sec(1) \div 2
    /\ attempt = 1

-----------------------------------------------------------------------------
(* The body excerpt of a recorded failure *)

\* the latest outcome was a response with a non-success status other than
\* 429, recorded as the failure reason
ApiErrorRecorded ==
    /\ lastFailure.kind = "status"
    /\ lastErr.kind = "Gemini API error"

ExcerptOfShortBodyIsBody ==
    (ApiErrorRecorded /\ Len(lastFailure.text) <= 500) => lastErr.body = lastFailure.text

\* C20 (as claimed): the body excerpt in the failure reason recorded for a
\* non-success, non-429 response is at most 500 characters long, and is the
\* body itself when the body has at most 500 characters.
C20_ExcerptAtMost500 ==
    /\ ApiErrorRecorded => Len(lastErr.body) <= 500
    /\ ExcerptOfShortBodyIsBody

-----------------------------------------------------------------------------
(* Termination of tryModelsSequentially *)

\* every fetch() settles and every sleep() timer fires
SpecLive == Spec /\ WF_vars(FetchSettles) /\ WF_vars(Wake)

Running == pc \in { "await", "sleep" }

Terminated == pc = "done" /\ (Returned \/ Thrown)

WithinBudget ==
    /\ Len(CallSeq) <= 3 * Len(candidates)
    /\ SleepCount <= 2 * Len(candidates)
    /\ inflight \in { 0, 1 }

\* C21: provided every network call settles and every sleep ends, a running
\* invocation of tryModelsSequentially eventually returns or throws, whatever
\* the upstream answers are, and by then (and at every moment before) it has
\* made at most 3 * N calls and 2 * N sleeps, N the length of candidates.
C21_TerminatesWithinBudget == (Running ~> Terminated) /\ []WithinBudget

C21_Witness ==
    /\ Terminated
    /\ Thrown
    /\ Len(candidates) = 3
    /\ Len(CallSeq) = 9
    /\ SleepCount = 6

-----------------------------------------------------------------------------
(* The status attached to a thrown failure *)

\* the status of the attempt the latest failure belongs to: the status of
\* its response, or none when the call itself failed
StatusOfLastFailure == lastFailure.status

\* C22 (as claimed): when tryModelsSequentially throws a non-quota failure,
\* the status attached to the error is the status of the attempt the
\* attached reason describes (502 when that attempt had no response) and is
\* never a success (2xx) status.
C22_StatusBelongsToReason ==
    UpstreamFailure =>
        /\ ~(result.status \in 200 .. 299)
        /\ result.status = IF StatusOfLastFailure # null THEN StatusOfLastFailure
                           ELSE 502

-----------------------------------------------------------------------------
(* The single-attempt revision: tryModelsSequentially and the handler's *)
(* use of it (src/unnamed/part_000)                                      *)

SingleModels == { PRO, FLASH, UNKNOWN_MODEL }

\* the function ended by running off the end of its body
ReturnedUndefined == [NoResult EXCEPT !.kind = "undefined"]

SingleLocals(spc, model) ==
    [pc |-> spc, modelsToTry |-> Candidates(model), mi |-> 1, result |-> NoResult,
     httpResponse |-> NoResponse, calls |-> << model >>, seen |-> << >>]

\* m === modelsToTry[modelsToTry.length - 1]
SingleIsLast(l) == l.modelsToTry[l.mi] = l.modelsToTry[Len(l.modelsToTry)]

\* the next iteration of for (const m of modelsToTry), or the end of the body
SingleContinue(l) ==
    IF l.mi < Len(l.modelsToTry)
    THEN [l EXCEPT !.mi = l.mi + 1, !.calls = Append(@, l.modelsToTry[l.mi + 1])]
    ELSE [l EXCEPT !.pc = "returned", !.result = ReturnedUndefined]

\* catch (err): rethrown for the last model, swallowed otherwise
SingleCatch(l, err) ==
    IF SingleIsLast(l)
    THEN [l EXCEPT !.pc = "returned", !.result = [NoResult EXCEPT !.kind = "throw",
                                                                  !.err = err]]
    ELSE SingleContinue(l)

\* the loop body from the settling of the fetch of modelsToTry[mi] on
SingleSettle(l, o) ==
    LET seen == [l EXCEPT !.seen = Append(@, Kind(o))]
    IN  IF o.type = "reject"
        THEN SingleCatch(seen, Err("fetch failed", << >>, null, << >>))
        ELSE IF ~ResponseOk(o.status)
        THEN IF o.status = 429 THEN SingleContinue(seen)
             ELSE SingleCatch(seen, Err("Gemini API error", << >>, o.status, o.text))
        ELSE IF o.json = "invalid"
        THEN SingleCatch(seen, Err("invalid json", << >>, null, << >>))
        ELSE IF InlineData(o) = Base64(<< >>)
        THEN SingleCatch(seen, Err("No audio data in response", << >>, null, << >>))
        ELSE [seen EXCEPT !.pc = "returned",
                          !.result = [NoResult EXCEPT !.kind = "return",
                                                      !.audioBase64 = InlineData(o),
                                                      !.modelUsed = l.modelsToTry[l.mi]]]

\* const { audioBase64, modelUsed } = await tryModelsSequentially(...), to the
\* handler's return; destructuring undefined is a TypeError, caught with the
\* rest by the handler's catch
SingleHandlerResponse(res) ==
    CASE res.kind = "return" ->
           Response(200, "none", NullErr, Undefined, res.modelUsed,
                    Base64(DefaultWav(BufferFromBase64(res.audioBase64))))
      [] res.kind = "throw" ->
           Response(500, "Internal server error", res.err, Undefined, << >>,
                    Base64(<< >>))
      [] res.kind = "undefined" ->
           Response(500, "Internal server error",
                    Err("TypeError: Cannot destructure property", << >>, null, << >>),
                    Undefined, << >>, Base64(<< >>))

InitSingle ==
    /\ env = [GEMINI_TTS_MODEL |-> << >>, GEMINI_API_KEY |-> TRUE]
    /\ Idle
    /\ DelayOff
    /\ WavOff
    /\ ConcOff
    /\ single = SingleLocals("idle", PRO)

SingleStart ==
    /\ single.pc = "idle"
    /\ \E model \in SingleModels : single' = SingleLocals("await", model)
    /\ UNCHANGED << env, event, hpc, httpResponse, orchVars, delayVars, wavVars,
                    concVars >>

SingleFetchSettles ==
    /\ single.pc = "await"
    /\ \E o \in Outcomes : single' = SingleSettle(single, o)
    /\ UNCHANGED << env, event, hpc, httpResponse, orchVars, delayVars, wavVars,
                    concVars >>

SingleHandlerFinish ==
    /\ single.pc = "returned"
    /\ single' = [single EXCEPT !.pc = "done",
                                !.httpResponse = SingleHandlerResponse(single.result)]
    /\ UNCHANGED << env, event, hpc, httpResponse, orchVars, delayVars, wavVars,
                    concVars >>

NextSingle == SingleStart \/ SingleFetchSettles \/ SingleHandlerFinish

SpecSingle == InitSingle /\ [][NextSingle]_vars

\* C23 (as claimed): the single-attempt tryModelsSequentially always ends by
\* returning an object with audioBase64 and modelUsed or by throwing an error
\* describing the upstream failure, never without a result, also when the
\* last candidate, or every candidate, answered 429.
C23_SingleAlwaysResultOrError ==
    (single # << >> /\ single.pc \in { "returned", "done" }) =>
        /\ single.result.kind \in { "return", "throw" }
        /\ single.result.kind = "return" =>
               /\ single.result.audioBase64 # Base64(<< >>)
               /\ Includes(single.modelsToTry, single.result.modelUsed)
        /\ single.result.kind = "throw" => single.result.err # NullErr

====
